---- MODULE Spec2Model ----
(***************************************************************************)
(* Model of quiz.py: the question bank and its filter, the quiz generator  *)
(* (stratified / flat sampling followed by a shuffle), the interactive     *)
(* runner (ask, grade, record, score) and the program entry point main.    *)
(*                                                                         *)
(* Python values are modelled as follows.                                  *)
(*   - Optional[T]: None is the empty tuple, a present value v is <<v>>.   *)
(*   - str used as text the code transforms (answers, typed responses):    *)
(*     a sequence of one-character strings.                                *)
(*   - str used only as a label (topic, difficulty, type): a TLA+ string.  *)
(*   - list: a sequence; dict: a function whose DOMAIN is the key set, or  *)
(*     (for counts_by_difficulty, whose iteration order matters) a         *)
(*     sequence of items with distinct keys.                               *)
(***************************************************************************)
EXTENDS Integers, Sequences, FiniteSets, TLC

VARIABLES
    pc,             \* position of the program / of QuizRunner.run
    file,           \* content of the bank file: a sequence of JSON records
    bank,           \* bank.questions, the list object owned by the QuestionBank
    loaded,         \* history: bank.questions as it was when the bank was built
    config,         \* QuizConfig of the latest generate_quiz call
    num_questions,  \* num_questions of the latest generate_quiz call
    questions,      \* list returned by generate_quiz / passed to QuizRunner.run
    raised,         \* name of the exception that ended the latest call, or "none"
    i,              \* number of questions of `questions` displayed so far
    graded,         \* the line typed for question i and its grading, not yet recorded
    metrics,        \* runner.metrics
    quiz_questions, \* the QuizQuestion objects built so far by run
    result,         \* the QuizResult returned by run (None until then)
    stored,         \* content of metrics.pkl (None while the file does not exist)
    sessions,       \* history: number of completed program runs
    asked_total,    \* history: per question id, asks over all program runs
    correct_total,  \* history: per question id, asks graded correct over all runs
    events          \* history: the steps of this run of QuizRunner.run, in order

vars == <<pc, file, bank, loaded, config, num_questions, questions, raised, i,
          graded, metrics, quiz_questions, result, stored, sessions,
          asked_total, correct_total, events>>

----------------------------------------------------------------------------
(* Bounds *)

MaxBank == 2        \* longest question bank explored by the selection model
MaxCount == 2       \* largest requested count (per difficulty and flat)
MaxQuiz == 2        \* longest question sequence handed to QuizRunner.run
MaxSessions == 2    \* program runs explored by the whole-program model

----------------------------------------------------------------------------
(* Python basics *)

None == <<>>
Some(v) == <<v>>

\* Python truthiness of an Optional[str]: None and "" are false.
TruthyStr(opt) == opt # None /\ opt[1] # ""

\* Python truthiness of an Optional[int]: None and 0 are false.
TruthyInt(opt) == opt # None /\ opt[1] # 0

Min(a, b) == IF a <= b THEN a ELSE b

Range(s) == {s[k] : k \in 1..Len(s)}

SeqsUpTo(S, n) == UNION {[1..k -> S] : k \in 0..n}

Injections(k, n) ==
    {f \in [1..k -> 1..n] : \A a, b \in 1..k : a # b => f[a] # f[b]}

----------------------------------------------------------------------------
(* Question and QuestionBank *)

\* The dataclass constructor: the three type-specific fields default to None.
\* (The prompt text stands for the explanation and the tags as well: no code
\* modelled here reads them other than to print them.)
Question(r) ==
    [id         |-> r.id,
     question   |-> r.question,
     type       |-> r.type,
     difficulty |-> r.difficulty,
     topic      |-> r.topic,
     choices    |-> IF "choices" \in DOMAIN r THEN r.choices ELSE None,
     correct    |-> IF "correct" \in DOMAIN r THEN r.correct ELSE None,
     answer     |-> IF "answer" \in DOMAIN r THEN r.answer ELSE None]

RequiredFields == {"id", "question", "type", "difficulty", "topic"}

\* Question(**q) raises TypeError when a field without a default is missing.
ConstructorRaises(r) == ~ (RequiredFields \subseteq DOMAIN r)

\* QuestionBank.from_json: one Question per record, no further validation.
from_json(data) == [k \in 1..Len(data) |-> Question(data[k])]

Paris == <<"P", "a", "r", "i", "s">>

\* Well-formed records of a bank file.
J1 == [id |-> 1, question |-> "2+2?", type |-> "mcq",
       difficulty |-> "easy", topic |-> "math",
       choices |-> Some(<<"3", "4", "5">>), correct |-> Some(1)]
J2 == [id |-> 2, question |-> "Capital of France?", type |-> "short",
       difficulty |-> "easy", topic |-> "geo", answer |-> Some(Paris)]
J3 == [id |-> 3, question |-> "Is 7 prime?", type |-> "mcq",
       difficulty |-> "hard", topic |-> "math",
       choices |-> Some(<<"yes", "no">>), correct |-> Some(0)]
J4 == [id |-> 4, question |-> "City of the Louvre?", type |-> "short",
       difficulty |-> "easy", topic |-> "math",
       answer |-> Some(<<" ">> \o Paris \o <<" ">>)]

Q1 == Question(J1)
Q2 == Question(J2)
Q3 == Question(J3)
Q4 == Question(J4)

QuestionPool == {Q1, Q2, Q3, Q4}

Ids == {q.id : q \in QuestionPool}

\* QuestionBank.filter. A criterion that is not truthy leaves `result` bound to
\* the list it already names: with no truthy criterion the returned list IS
\* self.questions, not a copy (see FilterAliases).
filter(bankq, topic, difficulty) ==
    LET byTopic == IF TruthyStr(topic)
                   THEN SelectSeq(bankq, LAMBDA q : q.topic = topic[1])
                   ELSE bankq
    IN IF TruthyStr(difficulty)
       THEN SelectSeq(byTopic, LAMBDA q : q.difficulty = difficulty[1])
       ELSE byTopic

FilterAliases(topic, difficulty) == ~ TruthyStr(topic) /\ ~ TruthyStr(difficulty)

----------------------------------------------------------------------------
(* random.sample and random.shuffle: every outcome the generator can give *)

\* random.sample(pool, k) raises ValueError unless 0 <= k <= len(pool).
SampleRaises(pool, k) == k < 0 \/ k > Len(pool)

\* Mutant of random_sample: drawing with replacement (random.choices).
random_choices(pool, k) ==
    {[a \in 1..k |-> pool[f[a]]] : f \in [1..k -> 1..Len(pool)]}

\* The k-element lists drawn from distinct positions of pool, in any order.
random_sample(pool, k) ==
    {[a \in 1..k |-> pool[f[a]]] : f \in Injections(k, Len(pool))}

\* The orders random.shuffle can leave the list in.
random_shuffle(s) ==
    {[a \in 1..Len(s) |-> s[f[a]]] : f \in Injections(Len(s), Len(s))}

----------------------------------------------------------------------------
(* QuizConfig and QuizGenerator.generate_quiz *)

\* The difficulty labels, in the order main builds the counts dict.
DifficultyOrder == <<"easy", "medium", "hard">>

Topics == {"math", "geo"}

QuizConfig(counts, topic) == [counts_by_difficulty |-> counts, topic |-> topic]

\* Mutant of DrawCount: the requested count, not clamped to the pool.
DrawCountUnclamped(count, poolsize) == count

\* sample size of both modes: min(count, len(pool))
DrawCount(count, poolsize) == Min(count, poolsize)

\* The for loop of the per-difficulty mode from item k on: the lists it can
\* append to `selection`, or the ValueError random.sample raises.
RECURSIVE Draws(_, _, _, _)
Draws(bankq, topic, items, k) ==
    IF k > Len(items) THEN {[raised |-> FALSE, selection |-> <<>>]}
    ELSE LET pool == filter(bankq, topic, Some(items[k].diff))
             n    == DrawCount(items[k].count, Len(pool))
         IN IF pool = <<>> THEN Draws(bankq, topic, items, k + 1)
            ELSE IF SampleRaises(pool, n)
            THEN {[raised |-> TRUE, selection |-> <<>>]}
            ELSE {IF rest.raised THEN rest
                  ELSE [raised |-> FALSE, selection |-> s \o rest.selection] :
                    s \in random_sample(pool, n),
                    rest \in Draws(bankq, topic, items, k + 1)}

\* Every outcome of generate_quiz(config, num_questions) on a bank whose
\* question list is bankq: whether it raised, the list returned, and the bank's
\* question list afterwards (random.shuffle works in place, on whatever list
\* object `selection` names).
generate_quiz(bankq, cfg, num) ==
    IF cfg.counts_by_difficulty # <<>>
    THEN UNION {IF d.raised
                THEN {[raised |-> TRUE, selection |-> <<>>, bank |-> bankq]}
                ELSE {[raised |-> FALSE, selection |-> p, bank |-> bankq] :
                        p \in random_shuffle(d.selection)} :
                d \in Draws(bankq, cfg.topic, cfg.counts_by_difficulty, 1)}
    ELSE LET pool == filter(bankq, cfg.topic, None)
         IN IF TruthyInt(num)
            THEN LET n == DrawCount(num[1], Len(pool))
                 IN IF SampleRaises(pool, n)
                    THEN {[raised |-> TRUE, selection |-> <<>>, bank |-> bankq]}
                    ELSE UNION {{[raised |-> FALSE, selection |-> p, bank |-> bankq] :
                                   p \in random_shuffle(s)} :
                                s \in random_sample(pool, n)}
            ELSE {[raised |-> FALSE, selection |-> p,
                   bank |-> IF FilterAliases(cfg.topic, None) THEN p ELSE bankq] :
                    p \in random_shuffle(pool)}

\* The dicts {difficulty: count} explored: every subset of the labels, in
\* DifficultyOrder, with counts 0..MaxCount.
CountsMaps ==
    {LET present == SelectSeq([k \in 1..Len(DifficultyOrder) |->
                                 [diff |-> DifficultyOrder[k], count |-> c[k]]],
                              LAMBDA it : it.count # None)
     IN [k \in 1..Len(present) |->
           [diff |-> present[k].diff, count |-> present[k].count[1]]] :
     c \in [1..Len(DifficultyOrder) -> {None} \cup {Some(n) : n \in 0..MaxCount}]}

TopicFilters == {None} \cup {Some(t) : t \in Topics}

\* num_questions is an unchecked int of the command line: None, negative, 0, positive.
NumQuestions == {None} \cup {Some(n) : n \in (0 - 1)..MaxCount}

Configs == {QuizConfig(c, t) : c \in CountsMaps, t \in TopicFilters}

----------------------------------------------------------------------------
(* The generator used as a library: any bank, any arguments, any number of  *)
(* calls                                                                    *)

NoRun ==
    /\ i = 0
    /\ graded = None
    /\ metrics = <<>>
    /\ quiz_questions = <<>>
    /\ result = None
    /\ stored = None
    /\ sessions = 0
    /\ asked_total = [q \in Ids |-> 0]
    /\ correct_total = [q \in Ids |-> 0]
    /\ events = <<>>

InitSelect ==
    /\ pc = "loaded"
    /\ file = None
    /\ bank \in SeqsUpTo(QuestionPool, MaxBank)
    /\ loaded = bank
    /\ config \in Configs
    /\ num_questions \in NumQuestions
    /\ questions = <<>>
    /\ raised = "none"
    /\ NoRun

\* generator.generate_quiz(config, num_questions), called any number of times by
\* a client that keeps the generator and its arguments (drawn by InitSelect).
GenerateQuizCall ==
    /\ pc \in {"loaded", "Pending"}
    /\ \E out \in generate_quiz(bank, config, num_questions) :
         /\ questions' = out.selection
         /\ bank' = out.bank
         /\ raised' = IF out.raised THEN "ValueError" ELSE "none"
    /\ pc' = "Pending"
    /\ UNCHANGED <<file, loaded, config, num_questions, i, graded, metrics, quiz_questions, result,
                   stored, sessions, asked_total, correct_total, events>>

NextSelect == GenerateQuizCall

SpecSelect == InitSelect /\ [][NextSelect]_vars

----------------------------------------------------------------------------
(* str.strip, str.lower and int(str) *)

Whitespace == {" ", "\t"}

UpperCase == <<"A", "B", "C", "D", "E", "F", "G", "H", "I", "J", "K", "L", "M",
               "N", "O", "P", "Q", "R", "S", "T", "U", "V", "W", "X", "Y", "Z">>
LowerCase == <<"a", "b", "c", "d", "e", "f", "g", "h", "i", "j", "k", "l", "m",
               "n", "o", "p", "q", "r", "s", "t", "u", "v", "w", "x", "y", "z">>

LowerChar(c) ==
    IF \E k \in 1..Len(UpperCase) : UpperCase[k] = c
    THEN LowerCase[CHOOSE k \in 1..Len(UpperCase) : UpperCase[k] = c]
    ELSE c

lower(s) == [k \in 1..Len(s) |-> LowerChar(s[k])]

RECURSIVE lstrip(_)
lstrip(s) == IF s # <<>> /\ Head(s) \in Whitespace THEN lstrip(Tail(s)) ELSE s

RECURSIVE rstrip(_)
rstrip(s) ==
    IF s # <<>> /\ s[Len(s)] \in Whitespace
    THEN rstrip(SubSeq(s, 1, Len(s) - 1))
    ELSE s

strip(s) == rstrip(lstrip(s))

Digits == <<"0", "1", "2", "3", "4", "5", "6", "7", "8", "9">>

IsDigit(c) == \E k \in 1..Len(Digits) : Digits[k] = c

DigitValue(c) == (CHOOSE k \in 1..Len(Digits) : Digits[k] = c) - 1

RECURSIVE DecimalValue(_)
DecimalValue(ds) ==
    IF ds = <<>> THEN 0
    ELSE 10 * DecimalValue(SubSeq(ds, 1, Len(ds) - 1)) + DigitValue(ds[Len(ds)])

\* int(s) for the ASCII inputs explored: surrounding whitespace, an optional
\* sign, then one or more decimal digits. None stands for ValueError.
int(s) ==
    LET t      == strip(s)
        signed == t # <<>> /\ Head(t) \in {"+", "-"}
        ds     == IF signed THEN Tail(t) ELSE t
    IN IF ds = <<>> \/ \E k \in 1..Len(ds) : ~ IsDigit(ds[k])
       THEN None
       ELSE Some(IF signed /\ Head(t) = "-" THEN 0 - DecimalValue(ds)
                 ELSE DecimalValue(ds))

----------------------------------------------------------------------------
(* QuizRunner *)

\* user_answer is Any: the 0-based index when the choice parsed, else the text.
IntAnswer(n) == [kind |-> "int", index |-> n]
StrAnswer(s) == [kind |-> "str", text |-> s]

\* Mutant of Grade: the 1-based number is compared without the conversion to a
\* 0-based index.
GradeNoOffset(q, line) ==
    IF q.type = "mcq"
    THEN LET typed  == strip(line)
             parsed == int(typed)
         IN IF parsed # None
            THEN [user_answer |-> IntAnswer(parsed[1]),
                  is_correct  |-> Some(parsed[1]) = q.correct]
            ELSE [user_answer |-> StrAnswer(typed), is_correct |-> FALSE]
    ELSE LET typed == lower(strip(line))
         IN [user_answer |-> StrAnswer(typed),
             is_correct  |-> typed = lower(IF q.answer # None THEN q.answer[1]
                                           ELSE <<>>)]

\* ask_question, from the input() call to the end of the if/else: the value
\* left in user_answer and is_correct for the line the user typed.
Grade(q, line) ==
    IF q.type = "mcq"
    THEN LET typed  == strip(line)
             parsed == int(typed)
         IN IF parsed # None
            THEN [user_answer |-> IntAnswer(parsed[1] - 1),
                  is_correct  |-> Some(parsed[1] - 1) = q.correct]
            ELSE [user_answer |-> StrAnswer(typed), is_correct |-> FALSE]
    ELSE LET typed == lower(strip(line))
         IN [user_answer |-> StrAnswer(typed),
             is_correct  |-> typed = lower(IF q.answer # None THEN q.answer[1]
                                           ELSE <<>>)]

\* Mutant of UpdateMetrics: the entry is overwritten instead of incremented.
UpdateMetricsOverwrite(m, id, is_correct) ==
    (id :> [asked |-> 1, correct |-> IF is_correct THEN 1 ELSE 0]) @@ m

\* self.metrics.setdefault(q.id, {"asked": 0, "correct": 0}), then the increments
UpdateMetrics(m, id, is_correct) ==
    LET base  == IF id \in DOMAIN m THEN m
                 ELSE m @@ (id :> [asked |-> 0, correct |-> 0])
    IN [base EXCEPT ![id] = [asked   |-> @.asked + 1,
                             correct |-> IF is_correct THEN @.correct + 1
                                         ELSE @.correct]]

QuizQuestion(q, user_answer, is_correct) ==
    [question |-> q, user_answer |-> user_answer, is_correct |-> is_correct]

CorrectAnswers(qq) == Cardinality({k \in 1..Len(qq) : qq[k].is_correct})

\* Mutant of Score: the division without the guard for the empty quiz.
ScoreUnguarded(qq) == [num |-> CorrectAnswers(qq) * 100, den |-> Len(qq)]

\* correct_answers / len(quiz_questions) * 100, or 0.0 for an empty quiz. The
\* float is kept as the exact fraction num / den.
Score(qq) ==
    IF qq # <<>> THEN [num |-> CorrectAnswers(qq) * 100, den |-> Len(qq)]
    ELSE [num |-> 0, den |-> 1]

Details(qq) ==
    [k \in 1..Len(qq) |-> [question    |-> qq[k].question.question,
                           user_answer |-> qq[k].user_answer,
                           is_correct  |-> qq[k].is_correct]]

QuizResult(qq) ==
    [quiz_questions |-> qq, score |-> Score(qq), details |-> Details(qq)]

\* Lines the user may type at a prompt.
Inputs ==
    {<<>>, <<" ">>, <<"1">>, <<"2">>, <<"3">>, <<"0">>, <<"4">>,
     <<" ", "2", " ">>, <<"-", "1">>, <<"+", "1">>, <<"1", "0">>, <<"x">>,
     <<"2", "x">>, <<"1", ".", "0">>,
     Paris, <<" ", "p", "a", "r", "i", "s", " ">>, <<"P", "A", "R", "I", "S">>,
     <<" ">> \o Paris, <<"R", "o", "m", "e">>}

Event(op, k) == [op |-> op, k |-> k]

\* ask_question up to the prompt: print the question and, for mcq, its choices.
ShowQuestion ==
    /\ pc \in {"Pending", "Recorded"}
    /\ i < Len(questions)
    /\ i' = i + 1
    /\ pc' = "Asking"
    /\ events' = Append(events, Event("show", i + 1))
    /\ UNCHANGED <<file, bank, loaded, config, num_questions, questions, raised,
                   graded, metrics, quiz_questions, result, stored, sessions,
                   asked_total, correct_total>>

\* input() returns the line the user typed, and the answer is graded.
RequestAnswer ==
    /\ pc = "Asking"
    /\ \E line \in Inputs :
         LET g == Grade(questions[i], line)
         IN graded' = Some([line |-> line, user_answer |-> g.user_answer,
                            is_correct |-> g.is_correct])
    /\ pc' = "Grading"
    /\ events' = Append(events, Event("input", i))
    /\ UNCHANGED <<file, bank, loaded, config, num_questions, questions, raised,
                   i, metrics, quiz_questions, result, stored, sessions,
                   asked_total, correct_total>>

\* The rest of ask_question: update self.metrics, print the feedback, return
\* the QuizQuestion, which run's list comprehension collects.
Record ==
    /\ pc = "Grading"
    /\ LET q == questions[i]
           g == graded[1]
       IN /\ metrics' = UpdateMetrics(metrics, q.id, g.is_correct)
          /\ quiz_questions' =
               Append(quiz_questions, QuizQuestion(q, g.user_answer, g.is_correct))
          /\ asked_total' = [asked_total EXCEPT ![q.id] = @ + 1]
          /\ correct_total' =
               [correct_total EXCEPT ![q.id] = IF g.is_correct THEN @ + 1 ELSE @]
    /\ graded' = None
    /\ pc' = "Recorded"
    /\ events' = Append(events, Event("record", i))
    /\ UNCHANGED <<file, bank, loaded, config, num_questions, questions, raised,
                   i, result, stored, sessions>>

\* run after the list comprehension: the score, the details, the QuizResult.
Finish ==
    /\ pc \in {"Pending", "Recorded"}
    /\ i = Len(questions)
    /\ result' = Some(QuizResult(quiz_questions))
    /\ pc' = "Completed"
    /\ events' = Append(events, Event("complete", i))
    /\ UNCHANGED <<file, bank, loaded, config, num_questions, questions, raised,
                   i, graded, metrics, quiz_questions, stored, sessions,
                   asked_total, correct_total>>

----------------------------------------------------------------------------
(* QuizRunner().run(questions) on any question sequence *)

InitSession ==
    /\ pc = "Pending"
    /\ file = None
    /\ bank = <<>>
    /\ loaded = <<>>
    /\ config = QuizConfig(<<>>, None)
    /\ num_questions = None
    /\ questions \in SeqsUpTo(QuestionPool, MaxQuiz)
    /\ raised = "none"
    /\ NoRun

NextSession == ShowQuestion \/ RequestAnswer \/ Record \/ Finish

SpecSession == InitSession /\ [][NextSession]_vars

----------------------------------------------------------------------------
(* metrics persistence: defined by the module, called by nothing in it *)

\* save_metrics(runner, path): the file holds runner.metrics afterwards.
save_metrics(runner_metrics) == Some(runner_metrics)

\* load_metrics(path): the dict in the file.
load_metrics(pickled) == pickled[1]

----------------------------------------------------------------------------
(* main: one program run after the other, on one bank file *)

\* Records that break the bank's type-specific rules.
NoChoices == [id |-> 5, question |-> "Pick one", type |-> "mcq",
              difficulty |-> "easy", topic |-> "math"]
NoAnswer == [id |-> 6, question |-> "Name it", type |-> "short",
             difficulty |-> "easy", topic |-> "math"]
BadIndex == [id |-> 7, question |-> "Which?", type |-> "mcq",
             difficulty |-> "easy", topic |-> "math",
             choices |-> Some(<<"a", "b">>), correct |-> Some(5)]
\* A record without a field the constructor requires.
NoTopic == [id |-> 8, question |-> "Where?", type |-> "short",
            difficulty |-> "easy", answer |-> Some(Paris)]

BankFiles ==
    {<<>>, <<J1, J2>>, <<J3, J1>>, <<J1>>, <<NoChoices>>, <<J1, NoAnswer>>,
     <<BadIndex>>, <<J1, NoTopic>>}

FileIds == {1, 2, 3, 5, 6, 7, 8}

\* The options main parses: --topic, --num_questions, --easy, --medium, --hard.
Args(topic, num, easy, medium, hard) ==
    [topic |-> topic, num_questions |-> num,
     easy |-> easy, medium |-> medium, hard |-> hard]

CommandLines ==
    {Args(None, None, 0, 0, 0),
     Args(None, Some(1), 0, 0, 0),
     Args(None, Some(0), 0, 0, 0),
     Args(Some("math"), None, 0, 0, 0),
     Args(None, None, 1, 0, 0),
     Args(None, None, 2, 0, 1),
     Args(Some("math"), Some(1), 0, 1, 0),
     Args(None, Some(0 - 1), 0, 0, 0)}

\* counts = {diff: count for ... if count > 0}
MainCounts(args) ==
    LET given == <<args.easy, args.medium, args.hard>>
        all   == [k \in 1..Len(DifficultyOrder) |->
                    [diff |-> DifficultyOrder[k], count |-> given[k]]]
    IN SelectSeq(all, LAMBDA it : it.count > 0)

Init ==
    /\ pc = "start"
    /\ file \in BankFiles
    /\ bank = <<>>
    /\ loaded = <<>>
    /\ config = QuizConfig(<<>>, None)
    /\ num_questions = None
    /\ questions = <<>>
    /\ raised = "none"
    /\ i = 0
    /\ graded = None
    /\ metrics = <<>>
    /\ quiz_questions = <<>>
    /\ result = None
    /\ stored = None
    /\ sessions = 0
    /\ asked_total = [q \in FileIds |-> 0]
    /\ correct_total = [q \in FileIds |-> 0]
    /\ events = <<>>

\* bank = QuestionBank.from_json(args.bank)
LoadBank ==
    /\ pc = "start"
    /\ IF \E k \in 1..Len(file) : ConstructorRaises(file[k])
       THEN /\ raised' = "TypeError"
            /\ pc' = "aborted"
            /\ UNCHANGED <<bank, loaded>>
       ELSE /\ bank' = from_json(file)
            /\ loaded' = bank'
            /\ pc' = "loaded"
            /\ UNCHANGED raised
    /\ UNCHANGED <<file, config, num_questions, questions, i, graded, metrics,
                   quiz_questions, result, stored, sessions, asked_total,
                   correct_total, events>>

\* From the counts dict to runner = QuizRunner(): the quiz is generated and the
\* runner starts with empty metrics. A ValueError of random.sample ends the run.
MainGenerate ==
    /\ pc = "loaded"
    /\ \E args \in CommandLines :
         LET cfg == QuizConfig(MainCounts(args), args.topic)
         IN \E out \in generate_quiz(bank, cfg, args.num_questions) :
              /\ config' = cfg
              /\ num_questions' = args.num_questions
              /\ questions' = out.selection
              /\ bank' = out.bank
              /\ raised' = IF out.raised THEN "ValueError" ELSE "none"
              /\ pc' = IF out.raised THEN "aborted" ELSE "Pending"
    /\ metrics' = <<>>
    /\ UNCHANGED <<file, loaded, i, graded, quiz_questions, result, stored,
                   sessions, asked_total, correct_total, events>>

\* The score and the details are printed and the process ends; everything it
\* held in memory is gone, the files are as they are. The program is then run
\* again.
Exit ==
    /\ pc = "Completed"
    /\ sessions < MaxSessions
    /\ sessions' = sessions + 1
    /\ pc' = "start"
    /\ bank' = <<>>
    /\ loaded' = <<>>
    /\ config' = QuizConfig(<<>>, None)
    /\ num_questions' = None
    /\ questions' = <<>>
    /\ i' = 0
    /\ graded' = None
    /\ metrics' = <<>>
    /\ quiz_questions' = <<>>
    /\ result' = None
    /\ events' = <<>>
    /\ UNCHANGED <<file, raised, stored, asked_total, correct_total>>

Next ==
    \/ LoadBank
    \/ MainGenerate
    \/ ShowQuestion
    \/ RequestAnswer
    \/ Record
    \/ Finish
    \/ Exit

Spec == Init /\ [][Next]_vars

----------------------------------------------------------------------------
(* Properties *)

Count(S) == Cardinality(S)

\* The stated meaning of a topic filter: absent, or equal to the question's topic.
TopicMatches(q, topic) == topic = None \/ q.topic = topic[1]

\* Size of the pool a policy draws from, counted on the bank as loaded.
PoolSize(topic, diffs) ==
    Count({k \in 1..Len(loaded) :
             TopicMatches(loaded[k], topic) /\ loaded[k].difficulty \in diffs})

AllDifficulties == Range(DifficultyOrder)

DistinctIds(qs) == \A a, b \in 1..Len(qs) : a # b => qs[a].id # qs[b].id

FlatMode == config.counts_by_difficulty = <<>>

\* C1: whatever generate_quiz calls were made, filter() with no criteria still
\* returns the bank's questions in the order they were loaded, and
\* filter(topic, difficulty) the matching ones in that order.
C1_SelectionLeavesBank ==
    /\ filter(bank, None, None) = loaded
    /\ \A t \in TopicFilters, d \in AllDifficulties :
         filter(bank, t, Some(d)) = filter(loaded, t, Some(d))

\* A record that breaks the type-specific rules of the bank.
Malformed(r) ==
    LET q == Question(r)
    IN \/ q.type = "mcq" /\ (q.choices = None \/ q.correct = None)
       \/ q.type = "short" /\ q.answer = None
       \/ /\ q.choices # None
          /\ q.correct # None
          /\ q.correct[1] \notin 0..(Len(q.choices[1]) - 1)

MalformedFile ==
    \E k \in 1..Len(file) : ~ ConstructorRaises(file[k]) /\ Malformed(file[k])

\* The record metrics.pkl holds for a question id (zero counters when absent).
StoredRecord(id) ==
    IF stored # None /\ id \in DOMAIN load_metrics(stored)
    THEN load_metrics(stored)[id]
    ELSE [asked |-> 0, correct |-> 0]

\* C2: after any number of program runs the stored record of every question
\* counts all its asks, and all its asks graded correct, over all those runs.
C2_MetricsAccumulate ==
    (pc = "start" /\ sessions > 0 /\ ~ MalformedFile) =>
        \A id \in FileIds :
            /\ StoredRecord(id).asked = asked_total[id]
            /\ StoredRecord(id).correct = correct_total[id]

\* C3: on a bank file with a malformed record, loading ends in
\* MalformedBankError, and no question is displayed and no answer requested.
C3_MalformedBankIsFatal ==
    MalformedFile =>
        /\ pc # "start" => raised = "MalformedBankError"
        /\ events = <<>>

\* C4: in flat mode a given count n >= 0 yields exactly min(n, pool size)
\* questions of the topic-filtered pool and no error; without a count the
\* whole pool is returned.
C4_FlatCount ==
    (pc = "Pending" /\ FlatMode) =>
        LET size == PoolSize(config.topic, AllDifficulties)
        IN /\ (num_questions # None /\ num_questions[1] >= 0) =>
                /\ raised = "none"
                /\ Len(questions) = Min(num_questions[1], size)
           /\ num_questions = None => Len(questions) = size
           /\ \A k \in 1..Len(questions) :
                /\ TopicMatches(questions[k], config.topic)
                /\ questions[k] \in Range(loaded)

\* C5: in per-difficulty mode the quiz holds, for each difficulty d of the
\* mapping, exactly min(count[d], pool size of d) questions of difficulty d that
\* match the topic filter, nothing of another difficulty, and no error is raised.
C5_PerDifficultyCounts ==
    (pc = "Pending" /\ ~ FlatMode) =>
        LET items == config.counts_by_difficulty
        IN /\ raised = "none"
           /\ \A n \in 1..Len(items) :
                Count({k \in 1..Len(questions) :
                         /\ questions[k].difficulty = items[n].diff
                         /\ TopicMatches(questions[k], config.topic)})
                  = Min(items[n].count, PoolSize(config.topic, {items[n].diff}))
           /\ \A k \in 1..Len(questions) :
                /\ \E n \in 1..Len(items) : questions[k].difficulty = items[n].diff
                /\ TopicMatches(questions[k], config.topic)

\* Witness of C5: one difficulty asked for more than its non-empty pool holds,
\* another whose pool is empty, and a quiz of two questions.
C5_Witness ==
    /\ pc = "Pending"
    /\ ~ FlatMode
    /\ Len(questions) = 2
    /\ \E a, b \in 1..Len(config.counts_by_difficulty) :
         LET ia == config.counts_by_difficulty[a]
             ib == config.counts_by_difficulty[b]
         IN /\ PoolSize(config.topic, {ia.diff}) = 1
            /\ ia.count > 1
            /\ PoolSize(config.topic, {ib.diff}) = 0
            /\ ib.count > 0

\* C6: on a bank with pairwise distinct ids, no question occurs twice in the
\* quiz one generate_quiz call returns, in either mode.
C6_NoDuplicates ==
    (pc = "Pending" /\ DistinctIds(loaded)) =>
        \A a, b \in 1..Len(questions) : a # b => questions[a].id # questions[b].id

\* Witness of C6: a sample of two out of a two-question pool, flat mode.
C6_Witness ==
    /\ pc = "Pending"
    /\ DistinctIds(loaded)
    /\ FlatMode
    /\ TruthyInt(num_questions)
    /\ Len(questions) = 2

Current == questions[i]

\* C7: a free-text response is correct exactly when, trimmed and lower-cased,
\* it equals the trimmed and lower-cased canonical answer.
C7_FreeTextNormalisesBoth ==
    (pc = "Grading" /\ Current.type = "short" /\ Current.answer # None) =>
        (graded[1].is_correct
           <=> strip(lower(graded[1].line)) = strip(lower(Current.answer[1])))

\* The decimal text of an integer, as a user types it.
RECURSIVE DecimalText(_)
DecimalText(n) ==
    IF n < 10 THEN <<Digits[n + 1]>>
    ELSE DecimalText(n \div 10) \o <<Digits[(n % 10) + 1]>>

IntegerText(n) == IF n < 0 THEN <<"-">> \o DecimalText(0 - n) ELSE DecimalText(n)

\* The integers whose text is among the lines explored.
Ordinals == (0 - 1)..10

\* Lines that are not the text of a number.
NonNumeric ==
    {<<>>, <<" ">>, <<"x">>, <<"2", "x">>, <<"1", ".", "0">>, Paris,
     <<"R", "o", "m", "e">>}

ValidIndex(q) ==
    /\ q.choices # None
    /\ q.correct # None
    /\ q.correct[1] \in 0..(Len(q.choices[1]) - 1)

Asked(m, id) == IF id \in DOMAIN m THEN m[id].asked ELSE 0
Correct(m, id) == IF id \in DOMAIN m THEN m[id].correct ELSE 0

C8_Graded ==
    (pc = "Grading" /\ Current.type = "mcq" /\ ValidIndex(Current)) =>
        /\ \A n \in Ordinals :
             graded[1].line = IntegerText(n) =>
                 (graded[1].is_correct <=> n - 1 = Current.correct[1])
        /\ graded[1].line \in NonNumeric => ~ graded[1].is_correct

C8_Recorded ==
    (/\ pc = "Grading"
     /\ Current.type = "mcq"
     /\ ValidIndex(Current)
     /\ graded[1].line \in NonNumeric) =>
        /\ pc' = "Recorded"
        /\ raised' = "none"
        /\ Asked(metrics', Current.id) = Asked(metrics, Current.id) + 1
        /\ Correct(metrics', Current.id) = Correct(metrics, Current.id)
        /\ questions' = questions
        /\ i' = i

\* C8: for a multiple-choice question with a valid correct index, the text of
\* the integer n is graded correct exactly when n - 1 is the correct index; text
\* that is no number is graded incorrect, and the question is then recorded with
\* attempts + 1 and correct unchanged, the run staying on its course.
C8_MultipleChoiceGrading == [] C8_Graded /\ [][C8_Recorded]_vars

\* Witness of C8: a non-numeric answer to a multiple-choice question has been
\* recorded and a further question is being asked.
C8_Witness ==
    /\ pc = "Asking"
    /\ i = 2
    /\ questions[1].type = "mcq"
    /\ quiz_questions[1].user_answer.kind = "str"
    /\ ~ quiz_questions[1].is_correct
    /\ metrics[questions[1].id] = [asked |-> 1, correct |-> 0]

RECURSIVE SumOf(_, _)
SumOf(f, S) ==
    IF S = {} THEN 0
    ELSE LET x == CHOOSE y \in S : TRUE IN f[x] + SumOf(f, S \ {x})

TotalAsked == SumOf(asked_total, DOMAIN asked_total)
TotalCorrect == SumOf(correct_total, DOMAIN correct_total)

\* C9: the score of a run is 100 * correct / asked, 0.0 when nothing was
\* asked, and lies in 0..100.
C9_Score ==
    pc = "Completed" =>
        LET score == result[1].score
        IN /\ score.den > 0
           /\ score.num * TotalAsked = 100 * TotalCorrect * score.den
           /\ TotalAsked = 0 => score.num = 0
           /\ TotalAsked = Len(questions)
           /\ 0 <= score.num /\ score.num <= 100 * score.den

\* Witness of C9: a completed run of two questions with exactly one correct;
\* the score is 50.
C9_Witness ==
    /\ pc = "Completed"
    /\ TotalAsked = 2
    /\ TotalCorrect = 1
    /\ result[1].score.num = 50 * result[1].score.den

\* The step at position k of a run over n questions.
ExpectedEvent(k, n) ==
    IF k = 3 * n + 1 THEN Event("complete", n)
    ELSE Event(<<"show", "input", "record">>[((k - 1) % 3) + 1], ((k - 1) \div 3) + 1)

ExpectedPc(k, n) ==
    IF k = 0 THEN "Pending"
    ELSE IF k = 3 * n + 1 THEN "Completed"
    ELSE <<"Asking", "Grading", "Recorded">>[((k - 1) % 3) + 1]

\* C10: a run goes Pending, then Asking, Grading, Recorded for each question in
\* sequence order, then Completed; question k's metrics update is in place
\* before question k + 1 is displayed; the answered questions and the details
\* of the result follow the input sequence.
C10_SessionOrder ==
    LET n == Len(questions)
    IN /\ Len(events) <= 3 * n + 1
       /\ \A k \in 1..Len(events) : events[k] = ExpectedEvent(k, n)
       /\ pc = ExpectedPc(Len(events), n)
       /\ i = IF pc = "Completed" THEN n ELSE (Len(events) + 2) \div 3
       /\ Len(quiz_questions) = Len(events) \div 3
       /\ \A k \in 1..Len(quiz_questions) : quiz_questions[k].question = questions[k]
       /\ \A id \in Ids :
            /\ Asked(metrics, id) =
                 Count({k \in 1..Len(quiz_questions) : questions[k].id = id})
            /\ Correct(metrics, id) =
                 Count({k \in 1..Len(quiz_questions) :
                          questions[k].id = id /\ quiz_questions[k].is_correct})
       /\ pc = "Completed" =>
            /\ Len(result[1].quiz_questions) = n
            /\ Len(result[1].details) = n
            /\ \A k \in 1..n :
                 /\ result[1].quiz_questions[k].question = questions[k]
                 /\ result[1].details[k].question = questions[k].question
                 /\ result[1].details[k].is_correct
                      = result[1].quiz_questions[k].is_correct

\* Witness of C10: a completed run that asked the same question twice.
C10_Witness ==
    /\ pc = "Completed"
    /\ Len(questions) = 2
    /\ questions[1] = questions[2]
    /\ metrics[questions[1].id].asked = 2

====
